---- MODULE Spec2Model ----
(***************************************************************************)
(* amolyst: a staged pipeline.  Collectors write raw entries and relations *)
(* into the collector state, processors project them into the processor    *)
(* state, a formatter writes one table per namespace.                      *)
(*                                                                         *)
(* A Python dict is a function with a finite domain; a defaultdict is a    *)
(* dict whose missing keys are created on first access (reads included).   *)
(* Strings are TLA+ strings, so that the key and identifier formatting of  *)
(* the processors is real concatenation.                                   *)
(***************************************************************************)
EXTENDS Integers, Sequences, FiniteSets, TLC

VARIABLES
    pc,         \* position of main(): "collect", "process", "format", "done", "aborted"
    ci,         \* index in ALL_COLLECTORS of the collector whose read() runs
    pi,         \* index in ALL_PROCESSORS of the processor whose process() runs
    data,       \* CollectorMemoryState.data:      namespace -> category -> ident -> entry
    relations,  \* CollectorMemoryState.relations: namespace -> category -> fromid -> toid
    outdata,    \* ProcessorMemoryState.outdata:   namespace -> ident -> record
    fields,     \* ProcessorMemoryState.fields:    namespace -> set of field names
    tables,     \* what CSVFormatter.write has written: namespace -> [header, rows]
    nops,       \* number of processing calls made so far in this run
    merged,     \* history: namespace -> the keys of every mapping given to update
    last        \* the most recent call and what it was given

vars == <<pc, ci, pi, data, relations, outdata, fields, tables, nops, merged, last>>

-----------------------------------------------------------------------------
(* Bounds of the model *)

\* stored raw entries plus stored relations the collectors may leave behind
MaxItems == 2
\* processing calls (processfields, selectfields, relate, update) in one run
MaxOps == 2

-----------------------------------------------------------------------------
(* Python dicts *)

EmptyDict == [k \in {} |-> {}]

Get(d, k, default) == IF k \in DOMAIN d THEN d[k] ELSE default

Put(d, k, v) == [x \in DOMAIN d \cup {k} |-> IF x = k THEN v ELSE d[x]]

\* dict.update(e): the keys of e are set, the other keys of d are kept
DictUpdate(d, e) ==
    [x \in DOMAIN d \cup DOMAIN e |-> IF x \in DOMAIN e THEN e[x] ELSE d[x]]

\* defaultdict(partial(defaultdict, dict)): d[k1][k2] creates both levels
Touch2(d, k1, k2) ==
    LET inner == Get(d, k1, EmptyDict)
    IN  Put(d, k1, IF k2 \in DOMAIN inner THEN inner ELSE Put(inner, k2, EmptyDict))

\* the orders in which iteritems() may yield the keys of a dict
Orders(S) ==
    {o \in [1..Cardinality(S) -> S] : \A i, j \in 1..Cardinality(S) : o[i] = o[j] => i = j}

-----------------------------------------------------------------------------
(* The inputs *)

\* raw entries as the sources deliver them: field names "x" and "b.x"
Entries == { ("x" :> "1"), ("x" :> "2") @@ ("b.x" :> "1") }

\* identifiers of raw entries
Idents == {"i", "j"}

\* the (fromid, toid) pairs the relation sources deliver
RelationPairs == { <<"1", "3">>, <<"1", "2-3">>, <<"1-2", "3">> }

\* Collector.CATEGORY, the default category
DefaultCategory == "_root"

\* the registered collector classes, in order: NAMESPACE, CATEGORY and what
\* collect_entry does with an entry (define a field, or define a relation)
ALL_COLLECTORS ==
    << [NAMESPACE |-> "A",    CATEGORY |-> "a",             kind |-> "field"],
       [NAMESPACE |-> "A",    CATEGORY |-> "a.b",           kind |-> "field"],
       [NAMESPACE |-> "A--B", CATEGORY |-> DefaultCategory, kind |-> "relation"],
       [NAMESPACE |-> "A--B", CATEGORY |-> "a",             kind |-> "relation"],
       [NAMESPACE |-> "A--A", CATEGORY |-> DefaultCategory, kind |-> "relation"] >>

\* the registered processor classes; what process() calls is its own choice
ALL_PROCESSORS == << "P1" >>

\* what the processors are called on: the namespace and categories they
\* project, the namespace pairs they join, the records they merge directly
ProjectNamespaces == {"A"}
Categories == {"a", "a.b"}
JoinPairs == { <<"A", "B">>, <<"A", "A">> }
MergeNamespaces == {"A"}
MergeIdents == {"i"}

-----------------------------------------------------------------------------
(* CollectorMemoryState *)

\* a field() that merges the entry into the one stored before
CFieldMerging(d, namespace, category, ident, entry) ==
    LET t == Touch2(d, namespace, category)
    IN  Put(t, namespace, Put(t[namespace], category,
                              Put(t[namespace][category], ident,
                                  DictUpdate(Get(t[namespace][category], ident, EmptyDict),
                                             entry))))

\* a field() that starts the category over with the one entry
CFieldClearing(d, namespace, category, ident, entry) ==
    LET t == Touch2(d, namespace, category)
    IN  Put(t, namespace, Put(t[namespace], category, Put(EmptyDict, ident, entry)))

\* field(namespace, category, ident, entry)
CField(d, namespace, category, ident, entry) ==
    LET t == Touch2(d, namespace, category)
    IN  Put(t, namespace, Put(t[namespace], category,
                              Put(t[namespace][category], ident, entry)))

\* a relate() that keeps the toid recorded first for a fromid
CRelateKeeping(r, namespace, category, fromid, toid) ==
    LET t == Touch2(r, namespace, category)
    IN  Put(t, namespace, Put(t[namespace], category,
                              Put(t[namespace][category], fromid,
                                  Get(t[namespace][category], fromid, toid))))

\* relate(namespace, category, fromid, toid)
CRelate(r, namespace, category, fromid, toid) ==
    LET t == Touch2(r, namespace, category)
    IN  Put(t, namespace, Put(t[namespace], category,
                              Put(t[namespace][category], fromid, toid)))

\* an items() that falls back to another category of the namespace when the
\* category asked for holds nothing
CItemsAnyCategory(d, namespace, category) ==
    LET inner == Get(d, namespace, EmptyDict)
        held  == {c \in DOMAIN inner : DOMAIN inner[c] # {}}
    IN  IF category \in held THEN inner[category]
        ELSE IF held = {} THEN EmptyDict
        ELSE inner[CHOOSE c \in held : TRUE]

\* items(namespace, category): the dict whose iteritems() is returned, the
\* empty dict where the defaultdicts have nothing yet
CItems(d, namespace, category) == Get(Get(d, namespace, EmptyDict), category, EmptyDict)

\* a relationitems() that yields the relations of every category
CRelationItemsAllCategories(r, namespace) ==
    LET inner == Get(r, namespace, EmptyDict)
    IN  [f \in UNION {DOMAIN inner[c] : c \in DOMAIN inner} |->
            inner[CHOOSE c \in DOMAIN inner : f \in DOMAIN inner[c]][f]]

\* relationitems(namespace): the dict whose iteritems() is returned
CRelationItems(r, namespace) ==
    Get(Get(r, namespace, EmptyDict), DefaultCategory, EmptyDict)

\* dict.iteritems(): a dictionary-itemiterator over d, not yet advanced
Iteritems(d) == [dict |-> d, exhausted |-> FALSE]

\* a traversal (a for loop, list()) of an iterator to its end: the (key,
\* value) pairs it yields and the iterator it leaves, which yields no more
Traverse(it) ==
    [yielded |-> IF it.exhausted THEN {} ELSE {<<k, it.dict[k]>> : k \in DOMAIN it.dict},
     it      |-> [it EXCEPT !.exhausted = TRUE]]

\* the (namespace, category, key) triples that hold a value in a two-level store
Leaves(d) ==
    UNION {UNION {{<<n, c, k>> : k \in DOMAIN d[n][c]} : c \in DOMAIN d[n]} : n \in DOMAIN d}

Stored(d) == Cardinality(Leaves(d))

\* the (fromid, toid) pairs recorded at (namespace, category)
RecordedPairs(r, namespace, category) ==
    {<<t[3], r[t[1]][t[2]][t[3]]>> : t \in {u \in Leaves(r) : u[1] = namespace /\ u[2] = category}}

-----------------------------------------------------------------------------
(* ProcessorMemoryState, as the pair [outdata, fields] *)

\* an update() that replaces the record by value
PUpdateReplacing(ps, namespace, ident, value) ==
    LET nsdata == Get(ps.outdata, namespace, EmptyDict)
    IN  [outdata |-> Put(ps.outdata, namespace, Put(nsdata, ident, value)),
         fields  |-> Put(ps.fields, namespace,
                         Get(ps.fields, namespace, {}) \cup DOMAIN value)]

\* an update() that leaves the field names as they were
PUpdateUnregistered(ps, namespace, ident, value) ==
    LET nsdata == Get(ps.outdata, namespace, EmptyDict)
        record == Get(nsdata, ident, EmptyDict)
    IN  [outdata |-> Put(ps.outdata, namespace,
                         Put(nsdata, ident, DictUpdate(record, value))),
         fields  |-> Put(ps.fields, namespace, Get(ps.fields, namespace, {}))]

\* an update() that sets the field names to the keys of value
PUpdateResetting(ps, namespace, ident, value) ==
    LET nsdata == Get(ps.outdata, namespace, EmptyDict)
        record == Get(nsdata, ident, EmptyDict)
    IN  [outdata |-> Put(ps.outdata, namespace,
                         Put(nsdata, ident, DictUpdate(record, value))),
         fields  |-> Put(ps.fields, namespace, DOMAIN value)]

\* an update() that registers the keys the record had before the merge
PUpdateStale(ps, namespace, ident, value) ==
    LET nsdata == Get(ps.outdata, namespace, EmptyDict)
        record == Get(nsdata, ident, EmptyDict)
    IN  [outdata |-> Put(ps.outdata, namespace,
                         Put(nsdata, ident, DictUpdate(record, value))),
         fields  |-> Put(ps.fields, namespace,
                         Get(ps.fields, namespace, {}) \cup DOMAIN record)]

\* an update() that keeps the value a record already has for a key
PUpdateKeeping(ps, namespace, ident, value) ==
    LET nsdata == Get(ps.outdata, namespace, EmptyDict)
        record == Get(nsdata, ident, EmptyDict)
    IN  [outdata |-> Put(ps.outdata, namespace,
                         Put(nsdata, ident, DictUpdate(value, record))),
         fields  |-> Put(ps.fields, namespace,
                         Get(ps.fields, namespace, {}) \cup DOMAIN value)]

\* an update() that starts the namespace over with the one record
PUpdateAlone(ps, namespace, ident, value) ==
    LET nsdata == Get(ps.outdata, namespace, EmptyDict)
        record == Get(nsdata, ident, EmptyDict)
    IN  [outdata |-> Put(ps.outdata, namespace,
                         Put(EmptyDict, ident, DictUpdate(record, value))),
         fields  |-> Put(ps.fields, namespace,
                         Get(ps.fields, namespace, {}) \cup DOMAIN value)]

\* an update() that does nothing when value is the empty mapping
PUpdateSkippingEmpty(ps, namespace, ident, value) ==
    LET nsdata == Get(ps.outdata, namespace, EmptyDict)
        record == Get(nsdata, ident, EmptyDict)
    IN  IF DOMAIN value = {} THEN ps
        ELSE [outdata |-> Put(ps.outdata, namespace,
                              Put(nsdata, ident, DictUpdate(record, value))),
              fields  |-> Put(ps.fields, namespace,
                              Get(ps.fields, namespace, {}) \cup DOMAIN value)]

\* update(namespace, ident, value)
PUpdate(ps, namespace, ident, value) ==
    LET nsdata == Get(ps.outdata, namespace, EmptyDict)
        record == Get(nsdata, ident, EmptyDict)
    IN  [outdata |-> Put(ps.outdata, namespace,
                         Put(nsdata, ident, DictUpdate(record, value))),
         fields  |-> Put(ps.fields, namespace,
                         Get(ps.fields, namespace, {}) \cup DOMAIN value)]

\* fieldnames(namespace): the set returned
PFieldnames(f, namespace) == Get(f, namespace, {})

-----------------------------------------------------------------------------
(* Processor *)

\* the transforms handed to processfields: allfields and limitfields of
\* selectfields, and a custom transform that derives one field "x" from the
\* entry's "b.x" and yields no field for an entry without it
CustomFuncs == { [kind |-> "custom", name |-> "derive"] }

\* the fields argument of selectfields: not passed (None), or a list
FieldArgs == { [passed |-> FALSE],
               [passed |-> TRUE, list |-> <<"x">>],
               [passed |-> TRUE, list |-> <<"x", "b.x">>] }

\* a selectfields that hands allfields to processfields whatever fields is
SelectFuncAll(fieldarg) == [kind |-> "allfields"]

\* allfields if fields is None else limitfields
SelectFunc(fieldarg) ==
    IF ~fieldarg.passed THEN [kind |-> "allfields"]
    ELSE [kind |-> "limitfields", fields |-> fieldarg.list]

Range(s) == {s[i] : i \in DOMAIN s}

\* a limitfields that copies only the listed fields the entry has
CallFuncDropping(func, entry) ==
    CASE func.kind = "allfields"   -> [raised |-> FALSE, fields |-> entry]
      [] func.kind = "limitfields" ->
            [raised |-> FALSE,
             fields |-> [f \in Range(func.fields) \cap DOMAIN entry |-> entry[f]]]
      [] OTHER                     ->
            [raised |-> FALSE,
             fields |-> IF "b.x" \in DOMAIN entry THEN ("x" :> entry["b.x"])
                        ELSE EmptyDict]

\* func(entry): whether the call raises, and the mapping it returns if not.
\* limitfields reads entry[field] for every listed field (a KeyError when
\* the entry has no such field); allfields returns the entry itself
CallFunc(func, entry) ==
    CASE func.kind = "allfields"   -> [raised |-> FALSE, fields |-> entry]
      [] func.kind = "limitfields" ->
            IF \E f \in Range(func.fields) : f \notin DOMAIN entry
            THEN [raised |-> TRUE, fields |-> EmptyDict]
            ELSE [raised |-> FALSE, fields |-> [f \in Range(func.fields) |-> entry[f]]]
      [] OTHER                     ->
            [raised |-> FALSE,
             fields |-> IF "b.x" \in DOMAIN entry THEN ("x" :> entry["b.x"])
                        ELSE EmptyDict]

\* "%s.%s" % (category, key)
CatKey(category, key) == category \o "." \o key

\* a fielddata loop that keeps the keys as func returned them
FieldDataBare(category, fs) == fs

\* the fielddata loop of processfields: every key of fields under its catkey
FieldData(category, fs) ==
    [q \in {CatKey(category, k) : k \in DOMAIN fs} |->
        fs[CHOOSE k \in DOMAIN fs : CatKey(category, k) = q]]

\* the loop of processfields over items in the given order, from position i;
\* acc is [ps, applied, raised]: the processor state, the idents func was
\* called on, and whether func raised (which ends the loop)
RECURSIVE ProcessLoop(_, _, _, _, _, _, _)
ProcessLoop(items, order, i, namespace, category, func, acc) ==
    IF i > Cardinality(DOMAIN items) THEN acc
    ELSE LET ident == order[i]
             entry == items[ident]
             call  == CallFunc(func, entry)
         IN  IF call.raised
             THEN [acc EXCEPT !.applied = Append(@, ident), !.raised = TRUE]
             ELSE ProcessLoop(items, order, i + 1, namespace, category, func,
                     [ps      |-> PUpdate(acc.ps, namespace, ident,
                                          FieldData(category, call.fields)),
                      applied |-> Append(acc.applied, ident),
                      raised  |-> FALSE])

\* processfields(namespace, category, func) on collector data d
Processfields(d, ps, namespace, category, func, order) ==
    ProcessLoop(CItems(d, namespace, category), order, 1, namespace, category, func,
                [ps |-> ps, applied |-> <<>>, raised |-> FALSE])

\* "{}-{}".format(fromdata, todata)
JoinIdent(fromdata, todata) == fromdata \o "-" \o todata

\* a dict literal with the two sides exchanged
JoinRecordSwapped(from_ns, to_ns, fromdata, todata) ==
    Put(Put(EmptyDict, from_ns, todata), to_ns, fromdata)

\* a dict literal that puts todata on both sides
JoinRecordToTo(from_ns, to_ns, fromdata, todata) ==
    Put(Put(EmptyDict, from_ns, todata), to_ns, todata)

\* the dict literal {from_ns: fromdata, to_ns: todata}
JoinRecord(from_ns, to_ns, fromdata, todata) ==
    Put(Put(EmptyDict, from_ns, fromdata), to_ns, todata)

\* from_ns + "--" + to_ns
RelationNamespace(from_ns, to_ns) == from_ns \o "--" \o to_ns

\* the loop of relate over the relation items in the given order
RECURSIVE RelateLoop(_, _, _, _, _, _)
RelateLoop(items, order, i, from_ns, to_ns, ps) ==
    IF i > Cardinality(DOMAIN items) THEN ps
    ELSE LET fromdata == order[i]
             todata   == items[fromdata]
         IN  RelateLoop(items, order, i + 1, from_ns, to_ns,
                        PUpdate(ps, RelationNamespace(from_ns, to_ns),
                                JoinIdent(fromdata, todata),
                                JoinRecord(from_ns, to_ns, fromdata, todata)))

\* relate(from_ns, to_ns) on collector relations r
Relate(r, ps, from_ns, to_ns, order) ==
    RelateLoop(CRelationItems(r, RelationNamespace(from_ns, to_ns)), order, 1,
               from_ns, to_ns, ps)

PState == [outdata |-> outdata, fields |-> fields]

\* the key universe in the order sorted() puts it (byte order of the strings)
KeyOrder == << "A", "B", "a.b.b.x", "a.b.x", "a.x" >>

\* a column order that is the reverse of the sorted one
Unsorted(S) ==
    LET up == SelectSeq(KeyOrder, LAMBDA k : k \in S)
    IN  [i \in 1..Len(up) |-> up[Len(up) + 1 - i]]

\* sorted(fieldnames)
Sorted(S) == SelectSeq(KeyOrder, LAMBDA k : k \in S)

\* DictWriter.writerow(entry): a cell per column, '' for a column the entry lacks
Row(header, entry) ==
    [i \in 1..Len(header) |-> IF header[i] \in DOMAIN entry THEN entry[header[i]] ELSE ""]

\* values the processors merge directly with pstate.update
MergeValues == { ("a.x" :> "2"), ("a.x" :> "1") @@ ("a.b.x" :> "2") }

-----------------------------------------------------------------------------
(* main() *)

Init ==
    /\ pc = "collect"
    /\ ci = 1
    /\ pi = 1
    /\ data = EmptyDict
    /\ relations = EmptyDict
    /\ outdata = EmptyDict
    /\ fields = EmptyDict
    /\ tables = EmptyDict
    /\ nops = 0
    /\ merged = EmptyDict
    /\ last = [op |-> "main"]

Collector == ALL_COLLECTORS[ci]

\* collector.read() delivers an entry and collect_entry defines a field
CollectField(ident, entry) ==
    /\ pc = "collect"
    /\ Collector.kind = "field"
    /\ data' = CField(data, Collector.NAMESPACE, Collector.CATEGORY, ident, entry)
    /\ Stored(data') + Stored(relations) <= MaxItems
    /\ last' = [op |-> "field", namespace |-> Collector.NAMESPACE,
                category |-> Collector.CATEGORY, ident |-> ident, entry |-> entry,
                prior |-> {e \in Entries :
                             /\ ident \in DOMAIN CItems(data, Collector.NAMESPACE,
                                                         Collector.CATEGORY)
                             /\ e = CItems(data, Collector.NAMESPACE,
                                           Collector.CATEGORY)[ident]}]
    /\ UNCHANGED <<pc, ci, pi, relations, outdata, fields, tables, nops, merged>>

\* collector.read() delivers an entry and collect_entry defines a relation
CollectRelation(fromid, toid) ==
    /\ pc = "collect"
    /\ Collector.kind = "relation"
    /\ relations' = CRelate(relations, Collector.NAMESPACE, Collector.CATEGORY, fromid, toid)
    /\ Stored(data) + Stored(relations') <= MaxItems
    /\ last' = [op |-> "relate", namespace |-> Collector.NAMESPACE,
                category |-> Collector.CATEGORY, fromid |-> fromid, toid |-> toid,
                prior |-> {p[2] : p \in {q \in RecordedPairs(relations, Collector.NAMESPACE,
                                                               Collector.CATEGORY) :
                                            q[1] = fromid}}]
    /\ UNCHANGED <<pc, ci, pi, data, outdata, fields, tables, nops, merged>>

\* a loop over the collectors that ends after the first one
CollectorsDoneEarly == ci >= 1

\* the last collector has been read: main goes on to the processors
CollectorsDone == ci = Len(ALL_COLLECTORS)

\* collector.read() returns
ReadReturn ==
    /\ pc = "collect"
    /\ IF CollectorsDone
       THEN pc' = "process" /\ ci' = ci
       ELSE pc' = pc /\ ci' = ci + 1
    /\ last' = [op |-> "read"]
    /\ UNCHANGED <<pi, data, relations, outdata, fields, tables, nops, merged>>

\* a main() that catches what collector.read() raises and goes on
ReadRaiseSwallowed ==
    /\ pc = "collect"
    /\ IF CollectorsDone
       THEN pc' = "process" /\ ci' = ci
       ELSE pc' = pc /\ ci' = ci + 1
    /\ last' = [op |-> "read", raised |-> TRUE]
    /\ UNCHANGED <<pi, data, relations, outdata, fields, tables, nops, merged>>

\* collector.read() raises (the source cannot be read, an entry has no id):
\* nothing in main catches it
ReadRaise ==
    /\ pc = "collect"
    /\ pc' = "aborted"
    /\ last' = [op |-> "read", raised |-> TRUE]
    /\ UNCHANGED <<ci, pi, data, relations, outdata, fields, tables, nops, merged>>

\* history of the keys given to update: keys are noted under namespace
Noted(m, namespace, keys) == Put(m, namespace, Get(m, namespace, {}) \cup keys)

\* the keys a processfields call gave to update: those of the qualified
\* output of func for every ident it was called on without raising
GivenKeys(d, namespace, category, func, res) ==
    UNION { {CatKey(category, k) :
                k \in DOMAIN CallFunc(func, CItems(d, namespace, category)[ident]).fields}
            : ident \in {res.applied[i] : i \in 1..(Len(res.applied) -
                                                   (IF res.raised THEN 1 ELSE 0))} }

\* processor.process() calls self.processfields(namespace, category, func)
DoProcessfields(namespace, category, func, order) ==
    /\ pc = "process"
    /\ nops < MaxOps
    /\ order \in Orders(DOMAIN CItems(data, namespace, category))
    /\ LET res == Processfields(data, PState, namespace, category, func, order)
       IN  /\ outdata' = res.ps.outdata
           /\ fields' = res.ps.fields
           /\ pc' = IF res.raised THEN "aborted" ELSE pc
           /\ last' = [op |-> "processfields", namespace |-> namespace,
                       category |-> category, func |-> func,
                       applied |-> res.applied, raised |-> res.raised]
           /\ merged' = Noted(merged, namespace,
                              GivenKeys(data, namespace, category, func, res))
    /\ data' = Touch2(data, namespace, category)
    /\ nops' = nops + 1
    /\ UNCHANGED <<ci, pi, relations, tables>>

\* processor.process() calls self.selectfields(namespace, category, fields)
DoSelectfields(namespace, category, fieldarg, order) ==
    /\ pc = "process"
    /\ nops < MaxOps
    /\ order \in Orders(DOMAIN CItems(data, namespace, category))
    /\ LET res == Processfields(data, PState, namespace, category,
                                SelectFunc(fieldarg), order)
       IN  /\ outdata' = res.ps.outdata
           /\ fields' = res.ps.fields
           /\ pc' = IF res.raised THEN "aborted" ELSE pc
           /\ last' = [op |-> "selectfields", namespace |-> namespace,
                       category |-> category, fields |-> fieldarg,
                       applied |-> res.applied, raised |-> res.raised]
           /\ merged' = Noted(merged, namespace,
                              GivenKeys(data, namespace, category, SelectFunc(fieldarg), res))
    /\ data' = Touch2(data, namespace, category)
    /\ nops' = nops + 1
    /\ UNCHANGED <<ci, pi, relations, tables>>

\* processor.process() calls self.relate(from_ns, to_ns)
DoRelate(from_ns, to_ns, order) ==
    /\ pc = "process"
    /\ nops < MaxOps
    /\ order \in Orders(DOMAIN CRelationItems(relations, RelationNamespace(from_ns, to_ns)))
    /\ LET res == Relate(relations, PState, from_ns, to_ns, order)
       IN  /\ outdata' = res.outdata
           /\ fields' = res.fields
    /\ relations' = Touch2(relations, RelationNamespace(from_ns, to_ns), DefaultCategory)
    /\ merged' = IF DOMAIN order = {} THEN merged
                  ELSE Noted(merged, RelationNamespace(from_ns, to_ns), {from_ns, to_ns})
    /\ last' = [op |-> "join", from_ns |-> from_ns, to_ns |-> to_ns, order |-> order]
    /\ nops' = nops + 1
    /\ UNCHANGED <<pc, ci, pi, data, tables>>

\* processor.process() calls self.pstate.update(namespace, ident, value)
DoUpdate(namespace, ident, value) ==
    /\ pc = "process"
    /\ nops < MaxOps
    /\ LET res == PUpdate(PState, namespace, ident, value)
       IN  /\ outdata' = res.outdata
           /\ fields' = res.fields
    /\ merged' = Noted(merged, namespace, DOMAIN value)
    /\ last' = [op |-> "update", namespace |-> namespace, ident |-> ident, value |-> value,
                prior |-> {Get(outdata, namespace, EmptyDict)[i] :
                             i \in {ident} \cap DOMAIN Get(outdata, namespace, EmptyDict)}]
    /\ nops' = nops + 1
    /\ UNCHANGED <<pc, ci, pi, data, relations, tables>>

\* the last processor has processed: main goes on to the formatter
ProcessorsDone == pi = Len(ALL_PROCESSORS)

\* processor.process() returns
ProcessReturn ==
    /\ pc = "process"
    /\ IF ProcessorsDone
       THEN pc' = "format" /\ pi' = pi
       ELSE pc' = pc /\ pi' = pi + 1
    /\ last' = [op |-> "process"]
    /\ UNCHANGED <<ci, data, relations, outdata, fields, tables, nops, merged>>

\* the table CSVFormatter._write_namespace_handle writes for a namespace
Table(fieldnames, nsdata) ==
    [header |-> Sorted(fieldnames),
     rows   |-> [ident \in DOMAIN nsdata |-> Row(Sorted(fieldnames), nsdata[ident])]]

\* writerow raises ValueError for an entry with a key that is no column
RowRaises(fieldnames, nsdata) ==
    \E ident \in DOMAIN nsdata : ~(DOMAIN nsdata[ident] \subseteq fieldnames)

\* formatter.write()
Write ==
    /\ pc = "format"
    /\ IF \E namespace \in DOMAIN outdata :
             RowRaises(PFieldnames(fields, namespace), outdata[namespace])
       THEN pc' = "aborted" /\ tables' = tables
       ELSE /\ pc' = "done"
            /\ tables' = [namespace \in DOMAIN outdata |->
                            Table(PFieldnames(fields, namespace), outdata[namespace])]
    /\ fields' = [namespace \in DOMAIN fields \cup DOMAIN outdata |->
                    PFieldnames(fields, namespace)]
    /\ last' = [op |-> "write"]
    /\ UNCHANGED <<ci, pi, data, relations, outdata, nops, merged>>

Next ==
    \/ \E ident \in Idents, entry \in Entries : CollectField(ident, entry)
    \/ \E pair \in RelationPairs : CollectRelation(pair[1], pair[2])
    \/ ReadReturn
    \/ ReadRaise
    \/ \E namespace \in ProjectNamespaces, category \in Categories, func \in CustomFuncs :
       \E order \in Orders(DOMAIN CItems(data, namespace, category)) :
            DoProcessfields(namespace, category, func, order)
    \/ \E namespace \in ProjectNamespaces, category \in Categories, fieldarg \in FieldArgs :
       \E order \in Orders(DOMAIN CItems(data, namespace, category)) :
            DoSelectfields(namespace, category, fieldarg, order)
    \/ \E pair \in JoinPairs :
       \E order \in Orders(DOMAIN CRelationItems(relations,
                                                 RelationNamespace(pair[1], pair[2]))) :
            DoRelate(pair[1], pair[2], order)
    \/ \E namespace \in MergeNamespaces, ident \in MergeIdents, value \in MergeValues :
            DoUpdate(namespace, ident, value)
    \/ ProcessReturn
    \/ Write

Spec == Init /\ [][Next]_vars

-----------------------------------------------------------------------------
(* What the stores hold, without the empty dicts that reads create *)

Flat(d) == [t \in Leaves(d) |-> d[t[1]][t[2]][t[3]]]

\* the record at (namespace, ident) of an outdata, empty when there is none
RecordAt(o, namespace, ident) == Get(Get(o, namespace, EmptyDict), ident, EmptyDict)

HasRecord(o, namespace, ident) ==
    namespace \in DOMAIN o /\ ident \in DOMAIN o[namespace]

-----------------------------------------------------------------------------
(* C1: in every run of main() the phases do not overlap: a collector writes
   only while no processing call has been made, a processing call is made
   only after the last collector's read() has returned, and the formatter
   writes only after the last processor's process() has returned; after the
   formatter has started nothing is merged. *)
C1_PhaseBarrier ==
    [][ /\ (Flat(data') # Flat(data) \/ Flat(relations') # Flat(relations))
              => (pc = "collect" /\ nops = 0 /\ outdata = EmptyDict)
        /\ (nops' # nops \/ outdata' # outdata)
              => (pc = "process" /\ ci = Len(ALL_COLLECTORS) /\ tables = EmptyDict)
        /\ (tables' # tables \/ last'.op = "write")
              => (pc = "format" /\ pi = Len(ALL_PROCESSORS) /\ ci = Len(ALL_COLLECTORS))
        /\ (pc \in {"format", "done"})
              => (outdata' = outdata /\ Flat(data') = Flat(data)
                                     /\ Flat(relations') = Flat(relations))
      ]_vars

C1_Witness ==
    /\ pc = "done"
    /\ Stored(data) > 0 /\ Stored(relations) > 0
    /\ nops > 0 /\ outdata # EmptyDict /\ tables # EmptyDict

(* C2: a field() call leaves at its (namespace, category) exactly the entry
   it was given for its ident, whatever was stored there before, and changes
   no other entry; no other step changes an entry.  So items() yields for
   every written triple the entry of the last field() call on it. *)
C2_LastFieldWins ==
    [][ IF last'.op = "field"
        THEN LET c == last'
                 items == CItems(data', c.namespace, c.category)
             IN  /\ c.ident \in DOMAIN items
                 /\ items[c.ident] = c.entry
                 /\ Flat(data') = Put(Flat(data), <<c.namespace, c.category, c.ident>>,
                                      c.entry)
        ELSE Flat(data') = Flat(data)
      ]_vars

C2_Witness ==
    /\ last.op = "field"
    /\ last.prior # {} /\ last.prior # {last.entry}
    /\ CItems(data, last.namespace, last.category)[last.ident] = last.entry

(* C3: after update(namespace, ident, value) every key of value is a field
   name of the namespace, the record at (namespace, ident) exists and maps
   every key of value to its value there, and every other key the record
   had keeps its value. *)
C3_MergePost ==
    [][ last'.op = "update" =>
          LET c == last'
              old == RecordAt(outdata, c.namespace, c.ident)
              new == RecordAt(outdata', c.namespace, c.ident)
          IN  /\ DOMAIN c.value \subseteq PFieldnames(fields', c.namespace)
              /\ HasRecord(outdata', c.namespace, c.ident)
              /\ \A k \in DOMAIN c.value : k \in DOMAIN new /\ new[k] = c.value[k]
              /\ \A k \in DOMAIN old \ DOMAIN c.value : k \in DOMAIN new /\ new[k] = old[k]
      ]_vars

C3_Witness ==
    /\ last.op = "update"
    /\ \E old \in last.prior :
          /\ \E k \in DOMAIN old \cap DOMAIN last.value : old[k] # last.value[k]
          /\ \E k \in DOMAIN old : k \notin DOMAIN last.value
    /\ RecordAt(outdata, last.namespace, last.ident) # last.value

(* C4: in every state the keys of every record are field names of the
   record's namespace. *)
C4_RecordKeysRegistered ==
    \A namespace \in DOMAIN outdata : \A ident \in DOMAIN outdata[namespace] :
        DOMAIN outdata[namespace][ident] \subseteq PFieldnames(fields, namespace)

C4_Witness ==
    /\ pc = "done"
    /\ \E namespace \in DOMAIN outdata : \E ident \in DOMAIN outdata[namespace] :
          /\ DOMAIN outdata[namespace][ident] # {}
          /\ DOMAIN outdata[namespace][ident] # PFieldnames(fields, namespace)

(* C5: the field names of a namespace only grow from one state to the next,
   and in every state they are the union of the keys of the mappings given
   to update for that namespace so far. *)
C5_RegistryGrows ==
    [][ \A namespace \in DOMAIN fields \cup DOMAIN fields' \cup DOMAIN merged \cup DOMAIN merged' :
          /\ PFieldnames(fields, namespace) \subseteq PFieldnames(fields', namespace)
          /\ PFieldnames(fields, namespace) = Get(merged, namespace, {})
          /\ PFieldnames(fields', namespace) = Get(merged', namespace, {})
      ]_vars

C5_Witness ==
    /\ pc = "done"
    /\ \E namespace \in DOMAIN fields : Cardinality(PFieldnames(fields, namespace)) >= 3

\* the arguments update is tried on
TryNamespaces == MergeNamespaces \cup DOMAIN outdata \cup {"B"}
TryIdents == MergeIdents \cup Idents
TryValues == MergeValues \cup {EmptyDict} \cup {[k \in {"a.b.x"} |-> "1"]}

(* C6: from every processor state a processing call can find,
   update(namespace, ident, value) twice in a row gives the records and
   field names that one call gives. *)
C6_MergeIdempotent ==
    pc = "process" =>
    \A namespace \in TryNamespaces, ident \in TryIdents, value \in TryValues :
        LET once == PUpdate(PState, namespace, ident, value)
        IN  PUpdate(once, namespace, ident, value) = once

C6_Witness ==
    /\ last.op = "update"
    /\ nops >= 2
    /\ last.prior = {RecordAt(outdata, last.namespace, last.ident)}
    /\ DOMAIN last.value # {}

\* the func a processfields or selectfields call ran with
FuncOf(c) == IF c.op = "processfields" THEN c.func ELSE SelectFunc(c.fields)

(* C7: after processfields(namespace, category, func) has returned, func
   has been called exactly once on every raw entry at (namespace, category),
   and for every such (ident, entry) and every key k of func(entry) the
   record at (namespace, ident) maps "<category>.<k>" to func(entry)[k]; the
   bare key k is not written. *)
C7_ProcessfieldsPost ==
    [][ (last'.op \in {"processfields", "selectfields"} /\ ~last'.raised) =>
          LET c == last'
              items == CItems(data, c.namespace, c.category)
          IN  /\ Len(c.applied) = Cardinality(DOMAIN items)
              /\ Range(c.applied) = DOMAIN items
              /\ \A ident \in DOMAIN items :
                    LET out == CallFunc(FuncOf(c), items[ident]).fields
                        old == RecordAt(outdata, c.namespace, ident)
                        new == RecordAt(outdata', c.namespace, ident)
                    IN  \A k \in DOMAIN out :
                          /\ CatKey(c.category, k) \in DOMAIN new
                          /\ new[CatKey(c.category, k)] = out[k]
                          /\ k \in DOMAIN new => (k \in DOMAIN old /\ new[k] = old[k])
      ]_vars

C7_Witness ==
    /\ last.op = "processfields"
    /\ ~last.raised
    /\ last.func.name = "derive"
    /\ Len(last.applied) = 2
    /\ \A i \in 1..2 :
          CatKey(last.category, "x") \in DOMAIN RecordAt(outdata, last.namespace, last.applied[i])

\* the identifiers a relation table synthesizes
JoinIdents(pairs) == {JoinIdent(f, pairs[f]) : f \in DOMAIN pairs}

\* no two pairs of the table synthesize the same identifier
NoCollision(pairs) ==
    \A f, g \in DOMAIN pairs : JoinIdent(f, pairs[f]) = JoinIdent(g, pairs[g]) => f = g

(* C8 as claimed: after relate(A, B), for every pair (fromId, toId) of the
   default-category relation table at "A--B" the processor state holds in
   "A--B" a record with identifier fromId + "-" + toId that has two fields,
   A mapped to fromId and B mapped to toId; when no two pairs synthesize the
   same identifier, as many records are written as there are pairs. *)
C8_JoinEveryPair ==
    [][ last'.op = "join" =>
          LET A == last'.from_ns
              B == last'.to_ns
              ns == RelationNamespace(A, B)
              pairs == CRelationItems(relations, ns)
          IN  /\ \A f \in DOMAIN pairs :
                    LET rec == RecordAt(outdata', ns, JoinIdent(f, pairs[f]))
                    IN  /\ HasRecord(outdata', ns, JoinIdent(f, pairs[f]))
                        /\ Cardinality(DOMAIN rec) = 2
                        /\ A \in DOMAIN rec /\ rec[A] = f
                        /\ B \in DOMAIN rec /\ rec[B] = pairs[f]
              /\ NoCollision(pairs) =>
                    Cardinality(DOMAIN Get(outdata', ns, EmptyDict)) = Cardinality(DOMAIN pairs)
      ]_vars

(* C8 amended: after relate(A, B), for every pair (fromId, toId) of the
   default-category relation table at "A--B" the processor state holds in
   "A--B" a record with identifier fromId + "-" + toId; when no other pair
   synthesizes that identifier the record maps B to toId and, when A and B
   are different names, A to fromId (when A = B its one key A holds toId),
   and A and B are the only keys the call adds to it; the records of "A--B"
   are those it had plus one per synthesized identifier, so that when no two
   pairs synthesize the same identifier as many records are written as
   there are pairs. *)
C8_JoinPost ==
    [][ last'.op = "join" =>
          LET A == last'.from_ns
              B == last'.to_ns
              ns == RelationNamespace(A, B)
              pairs == CRelationItems(relations, ns)
          IN  /\ \A f \in DOMAIN pairs :
                    LET ident == JoinIdent(f, pairs[f])
                        old == RecordAt(outdata, ns, ident)
                        rec == RecordAt(outdata', ns, ident)
                    IN  /\ HasRecord(outdata', ns, ident)
                        /\ DOMAIN rec = DOMAIN old \cup {A, B}
                        /\ (\A g \in DOMAIN pairs : JoinIdent(g, pairs[g]) = ident => g = f)
                              => /\ rec[B] = pairs[f]
                                 /\ A # B => rec[A] = f
              /\ DOMAIN Get(outdata', ns, EmptyDict)
                    = DOMAIN Get(outdata, ns, EmptyDict) \cup JoinIdents(pairs)
              /\ NoCollision(pairs) =>
                    Cardinality(JoinIdents(pairs)) = Cardinality(DOMAIN pairs)
      ]_vars

C8_Witness ==
    /\ last.op = "join"
    /\ last.from_ns # last.to_ns
    /\ LET ns == RelationNamespace(last.from_ns, last.to_ns)
           pairs == CRelationItems(relations, ns)
       IN  /\ Cardinality(DOMAIN pairs) = 2
           /\ NoCollision(pairs)
           /\ Cardinality(DOMAIN Get(outdata, ns, EmptyDict)) = 2
           /\ \A f \in DOMAIN pairs :
                 RecordAt(outdata, ns, JoinIdent(f, pairs[f]))
                    = JoinRecord(last.from_ns, last.to_ns, f, pairs[f])

\* the funcs processfields is tried with, and the ones that raise on no
\* entry at (namespace, category)
TryFuncs == CustomFuncs \cup {SelectFunc(a) : a \in FieldArgs}
Total(func, namespace, category) ==
    \A ident \in DOMAIN CItems(data, namespace, category) :
        ~CallFunc(func, CItems(data, namespace, category)[ident]).raised

\* what processfields(namespace, category, func) makes of processor state ps
\* (the order of the entries makes no difference when func raises on none)
Projected(ps, namespace, category, func) ==
    Processfields(data, ps, namespace, category, func,
                  CHOOSE o \in Orders(DOMAIN CItems(data, namespace, category)) : TRUE).ps

\* the qualified keys processfields(namespace, category, func) writes
QualifiedKeys(namespace, category, func) ==
    UNION { {CatKey(category, k) :
                k \in DOMAIN CallFunc(func, CItems(data, namespace, category)[ident]).fields}
            : ident \in DOMAIN CItems(data, namespace, category) }

(* C9 as claimed: for two distinct categories c1 and c2 of a namespace the
   qualified keys processfields writes for c1 and for c2 are disjoint, and
   processfields on c1 then c2 gives the processor state that c2 then c1
   gives, in which every record holds what c1 contributed and what c2
   contributed to it. *)
C9_CategoriesCommute ==
    pc = "process" =>
    \A namespace \in ProjectNamespaces, c1 \in Categories, c2 \in Categories :
      \A f1 \in TryFuncs, f2 \in TryFuncs :
        (c1 # c2 /\ Total(f1, namespace, c1) /\ Total(f2, namespace, c2)) =>
          LET c1c2 == Projected(Projected(PState, namespace, c1, f1), namespace, c2, f2)
              c2c1 == Projected(Projected(PState, namespace, c2, f2), namespace, c1, f1)
          IN  /\ QualifiedKeys(namespace, c1, f1) \cap QualifiedKeys(namespace, c2, f2) = {}
              /\ c1c2 = c2c1
              /\ \A ident \in DOMAIN CItems(data, namespace, c1) :
                    LET out == CallFunc(f1, CItems(data, namespace, c1)[ident]).fields
                    IN  \A k \in DOMAIN out :
                          RecordAt(c1c2.outdata, namespace, ident)[CatKey(c1, k)] = out[k]

(* C10: selectfields(namespace, category, fields) with a field list, called
   where some raw entry lacks a listed field, raises and ends the run: the
   record of no such entry is created or changed by the call, and the
   formatter does not write in that run. *)
C10_MissingFieldFails ==
    [][ /\ (last'.op = "selectfields" /\ last'.fields.passed) =>
              LET c == last'
                  items == CItems(data, c.namespace, c.category)
                  lacking == {ident \in DOMAIN items :
                                \E f \in Range(c.fields.list) : f \notin DOMAIN items[ident]}
              IN  lacking # {} =>
                    /\ c.raised
                    /\ pc' = "aborted"
                    /\ tables' = tables
                    /\ \A ident \in lacking :
                          /\ HasRecord(outdata', c.namespace, ident)
                                = HasRecord(outdata, c.namespace, ident)
                          /\ RecordAt(outdata', c.namespace, ident)
                                = RecordAt(outdata, c.namespace, ident)
        /\ pc = "aborted" => (pc' = "aborted" /\ last'.op # "write" /\ tables' = tables)
        /\ last'.op = "write" => pc = "format"
      ]_vars

C10_Witness ==
    /\ last.op = "selectfields"
    /\ last.raised
    /\ pc = "aborted"
    /\ Len(last.applied) = 2
    /\ HasRecord(outdata, last.namespace, last.applied[1])
    /\ ~HasRecord(outdata, last.namespace, last.applied[2])
    /\ tables = EmptyDict

\* the coordinates the read accessors are tried on: written and never
\* written namespaces and categories
ReadNamespaces == ProjectNamespaces \cup {"B", "A--B", "A--A", "B--A"}
ReadCategories == Categories \cup {DefaultCategory, "c"}

\* field() has been called at (namespace, category) of d: nothing is ever
\* removed, so it has been exactly when an entry is stored there
Written(d, namespace, category) ==
    /\ namespace \in DOMAIN d
    /\ category \in DOMAIN d[namespace]
    /\ DOMAIN d[namespace][category] # {}

(* C11: in every state, items(namespace, category) at a never written
   (namespace, category) and relationitems(namespace) at a namespace with no
   relation yield nothing; a processing call that reads such a place is
   applied to no entry, writes no record and does not raise. *)
C11_UnwrittenReadsEmpty ==
    /\ \A namespace \in ReadNamespaces :
          /\ \A category \in ReadCategories :
                ~Written(data, namespace, category)
                    => DOMAIN CItems(data, namespace, category) = {}
          /\ (\A category \in ReadCategories : ~Written(relations, namespace, category))
                => DOMAIN CRelationItems(relations, namespace) = {}
    /\ (last.op \in {"processfields", "selectfields"}
            /\ ~Written(data, last.namespace, last.category))
          => (last.applied = <<>> /\ ~last.raised /\ pc # "aborted")
    /\ (last.op = "join"
            /\ \A category \in ReadCategories :
                   ~Written(relations, RelationNamespace(last.from_ns, last.to_ns), category))
          => /\ DOMAIN last.order = {}
             /\ RelationNamespace(last.from_ns, last.to_ns) \notin DOMAIN outdata
             /\ pc # "aborted"

C11_Witness ==
    /\ last.op = "selectfields"
    /\ last.fields.passed
    /\ ~Written(data, last.namespace, last.category)
    /\ \E category \in Categories : Written(data, last.namespace, category)
    /\ last.applied = <<>>
    /\ pc = "process"

(* C12 as claimed: what one items(namespace, category) call returns can be
   traversed twice: with no write in between the second traversal yields
   the (ident, entry) pairs the first one yielded. *)
C12_ItemsRestartable ==
    \A namespace \in ReadNamespaces, category \in ReadCategories :
        LET returned == Iteritems(CItems(data, namespace, category))
            first    == Traverse(returned)
            second   == Traverse(first.it)
        IN  second.yielded = first.yielded

\* the namespaces the collectors record relations under
RelationNamespaces == {ALL_COLLECTORS[i].NAMESPACE :
                          i \in {j \in DOMAIN ALL_COLLECTORS : ALL_COLLECTORS[j].kind = "relation"}}

(* C13: relationitems(namespace) yields exactly the (fromid, toid) pairs
   recorded under the default category "_root" of the namespace; a relation
   recorded under another category is not yielded, relate() is not applied
   to it, and the join output holds no record but those synthesized from the
   default-category pairs. *)
C13_DefaultCategoryOnly ==
    /\ \A namespace \in RelationNamespaces :
          /\ Traverse(Iteritems(CRelationItems(relations, namespace))).yielded
                = RecordedPairs(relations, namespace, DefaultCategory)
          /\ DOMAIN Get(outdata, namespace, EmptyDict)
                \subseteq {JoinIdent(p[1], p[2]) :
                              p \in RecordedPairs(relations, namespace, DefaultCategory)}
    /\ last.op = "join" =>
          Range(last.order)
            = {p[1] : p \in RecordedPairs(relations,
                                           RelationNamespace(last.from_ns, last.to_ns),
                                           DefaultCategory)}

C13_Witness ==
    /\ last.op = "join"
    /\ LET namespace == RelationNamespace(last.from_ns, last.to_ns)
       IN  /\ \E p \in RecordedPairs(relations, namespace, "a") :
                 /\ p \notin RecordedPairs(relations, namespace, DefaultCategory)
                 /\ ~HasRecord(outdata, namespace, JoinIdent(p[1], p[2]))
           /\ Cardinality(RecordedPairs(relations, namespace, DefaultCategory)) = 1
           /\ Cardinality(DOMAIN Get(outdata, namespace, EmptyDict)) = 1

(* C14: a relate() call leaves at its (namespace, category, fromid) the
   toid it was given, whatever was recorded there before, and changes no
   other relation; no other step changes a relation.  So the relation table
   holds for every key one toid, that of the last relate() call on it. *)
C14_LastRelationWins ==
    [][ IF last'.op = "relate"
        THEN LET c == last'
             IN  /\ RecordedPairs(relations', c.namespace, c.category)
                       = {p \in RecordedPairs(relations, c.namespace, c.category) :
                             p[1] # c.fromid} \cup {<<c.fromid, c.toid>>}
                 /\ Flat(relations') = Put(Flat(relations),
                                           <<c.namespace, c.category, c.fromid>>, c.toid)
        ELSE Flat(relations') = Flat(relations)
      ]_vars

C14_Witness ==
    /\ last.op = "relate"
    /\ last.prior # {} /\ last.prior # {last.toid}
    /\ RecordedPairs(relations, last.namespace, last.category) = {<<last.fromid, last.toid>>}
    /\ Stored(relations) = 2

\* the pairs of a relation table that synthesize ident with another pair
Colliding(pairs, ident) ==
    LET same == {f \in DOMAIN pairs : JoinIdent(f, pairs[f]) = ident}
    IN  IF Cardinality(same) >= 2 THEN same ELSE {}

\* of the fromids in S, the one the loop of relate reaches last
Later(order, S) ==
    order[CHOOSE i \in DOMAIN order :
            order[i] \in S /\ \A j \in DOMAIN order : order[j] \in S => j <= i]

(* C15 as claimed: when two different pairs of the relation table at "A--B"
   synthesize the same identifier, relate(A, B) does not raise and the
   record of that identifier has exactly the fields A and B, A holding the
   fromid and B the toid of the pair written later. *)
C15_CollisionLaterWins ==
    last.op = "join" =>
      LET A == last.from_ns
          B == last.to_ns
          ns == RelationNamespace(A, B)
          pairs == CRelationItems(relations, ns)
      IN  /\ pc # "aborted"
          /\ \A ident \in JoinIdents(pairs) :
                Colliding(pairs, ident) # {} =>
                  LET later == Later(last.order, Colliding(pairs, ident))
                      rec   == RecordAt(outdata, ns, ident)
                  IN  /\ HasRecord(outdata, ns, ident)
                      /\ DOMAIN rec = {A, B}
                      /\ rec[A] = later
                      /\ rec[B] = pairs[later]

(* C15 amended: when two different pairs of the relation table at "A--B"
   synthesize the same identifier, relate(A, B) does not raise and the
   record of that identifier has exactly the fields A and B; B holds the
   toid of the pair written later and, when A and B are different names, A
   holds its fromid (when A = B the one field A holds the later toid);
   nothing of the earlier pair remains in the record. *)
C15_CollisionPost ==
    last.op = "join" =>
      LET A == last.from_ns
          B == last.to_ns
          ns == RelationNamespace(A, B)
          pairs == CRelationItems(relations, ns)
      IN  /\ pc # "aborted"
          /\ \A ident \in JoinIdents(pairs) :
                Colliding(pairs, ident) # {} =>
                  LET later == Later(last.order, Colliding(pairs, ident))
                      rec   == RecordAt(outdata, ns, ident)
                  IN  /\ HasRecord(outdata, ns, ident)
                      /\ DOMAIN rec = {A, B}
                      /\ rec[B] = pairs[later]
                      /\ A # B => rec[A] = later
                      /\ \A f \in Colliding(pairs, ident) \ {later} :
                            \A k \in DOMAIN rec : rec[k] \notin {f, pairs[f]}

C15_Witness ==
    /\ last.op = "join"
    /\ last.from_ns # last.to_ns
    /\ LET ns == RelationNamespace(last.from_ns, last.to_ns)
           pairs == CRelationItems(relations, ns)
       IN  /\ Cardinality(DOMAIN pairs) = 2
           /\ ~NoCollision(pairs)
           /\ Cardinality(DOMAIN Get(outdata, ns, EmptyDict)) = 1
           /\ \E ident \in JoinIdents(pairs) :
                 RecordAt(outdata, ns, ident)
                    = JoinRecord(last.from_ns, last.to_ns, last.order[2],
                                 pairs[last.order[2]])

\* the idents a processfields call has updated: those func was called on,
\* without the one it raised on
Updated(c) ==
    {c.applied[i] : i \in 1..(Len(c.applied) - (IF c.raised THEN 1 ELSE 0))}

\* the keys of entry that fields names: the listed ones, or all of them
Named(fieldarg, entry) == IF fieldarg.passed THEN Range(fieldarg.list) ELSE DOMAIN entry

(* C16: selectfields(namespace, category, fields) writes into the record of
   every raw entry it processes exactly the keys fields names (every key of
   the entry when fields is not given), each as "<category>.<key>" with the
   value the entry has for the key; no other key of the record is added or
   changed, and the record of an entry it does not get to (after a raise) is
   as before. *)
C16_SelectfieldsPost ==
    [][ last'.op = "selectfields" =>
          LET c == last'
              items == CItems(data, c.namespace, c.category)
          IN  /\ ~c.raised => Updated(c) = DOMAIN items
              /\ \A ident \in DOMAIN items :
                    LET entry == items[ident]
                        named == Named(c.fields, entry)
                        old == RecordAt(outdata, c.namespace, ident)
                        new == RecordAt(outdata', c.namespace, ident)
                    IN  IF ident \in Updated(c)
                        THEN /\ named \subseteq DOMAIN entry
                             /\ HasRecord(outdata', c.namespace, ident)
                             /\ DOMAIN new = DOMAIN old \cup {CatKey(c.category, k) : k \in named}
                             /\ \A k \in named : new[CatKey(c.category, k)] = entry[k]
                             /\ \A q \in DOMAIN old \ {CatKey(c.category, k) : k \in named} :
                                    new[q] = old[q]
                        ELSE /\ new = old
                             /\ HasRecord(outdata', c.namespace, ident)
                                    = HasRecord(outdata, c.namespace, ident)
      ]_vars

C16_Witness ==
    /\ last.op = "selectfields"
    /\ ~last.raised
    /\ last.fields.passed
    /\ last.fields.list = <<"x">>
    /\ \E ident \in Range(last.applied) :
          LET entry == CItems(data, last.namespace, last.category)[ident]
              rec   == RecordAt(outdata, last.namespace, ident)
          IN  /\ "b.x" \in DOMAIN entry
              /\ DOMAIN rec = {CatKey(last.category, "x")}
              /\ rec[CatKey(last.category, "x")] = entry["x"]

\* the (namespace, ident) pairs that have a record, and the (namespace,
\* ident, key) triples that have a value in a record
Records(o) == UNION {{<<n, i>> : i \in DOMAIN o[n]} : n \in DOMAIN o}
RecordKeys(o) == UNION {{<<p[1], p[2], k>> : k \in DOMAIN o[p[1]][p[2]]} : p \in Records(o)}

(* C17: from one state to the next the (namespace, category, ident) triples
   with a raw entry, the (namespace, category, fromid) relation keys, the
   (namespace, ident) pairs with a record, the keys of every record and the
   field names of every namespace only grow; the namespaces and categories
   of the stores only grow as well. *)
C17_NothingDeleted ==
    [][ /\ Leaves(data) \subseteq Leaves(data')
        /\ Leaves(relations) \subseteq Leaves(relations')
        /\ Records(outdata) \subseteq Records(outdata')
        /\ RecordKeys(outdata) \subseteq RecordKeys(outdata')
        /\ \A namespace \in DOMAIN fields :
              /\ namespace \in DOMAIN fields'
              /\ fields[namespace] \subseteq fields'[namespace]
        /\ \A namespace \in DOMAIN data :
              namespace \in DOMAIN data' /\ DOMAIN data[namespace] \subseteq DOMAIN data'[namespace]
        /\ \A namespace \in DOMAIN relations :
              /\ namespace \in DOMAIN relations'
              /\ DOMAIN relations[namespace] \subseteq DOMAIN relations'[namespace]
      ]_vars

C17_Witness ==
    /\ pc = "done"
    /\ \E namespace \in DOMAIN data : \E category \in DOMAIN data[namespace] :
          Cardinality(DOMAIN data[namespace][category]) = 2
    /\ \E namespace \in DOMAIN outdata :
          /\ Cardinality(DOMAIN outdata[namespace]) = 2
          /\ \E ident \in DOMAIN outdata[namespace] :
                Cardinality(DOMAIN outdata[namespace][ident]) >= 2

\* k1 sorts before k2
Before(k1, k2) ==
    \E i, j \in DOMAIN KeyOrder : i < j /\ KeyOrder[i] = k1 /\ KeyOrder[j] = k2

(* C18: when the formatter has written, there is one table for every
   namespace of the processor state and for no other; its columns are the
   field names of the namespace, each once, in sorted order; it has one row
   for every record of the namespace, and the row holds under each column
   the record's value for that field, or an empty cell when the record has
   no such field.  write() never ends in the ValueError a record with a key
   outside the columns gives. *)
C18_TablePerNamespace ==
    /\ last.op = "write" => pc = "done"
    /\ pc = "done" =>
          /\ DOMAIN tables = DOMAIN outdata
          /\ \A namespace \in DOMAIN tables :
                LET header == tables[namespace].header
                    rows   == tables[namespace].rows
                IN  /\ Range(header) = PFieldnames(fields, namespace)
                    /\ \A i, j \in DOMAIN header : i < j => Before(header[i], header[j])
                    /\ DOMAIN rows = DOMAIN outdata[namespace]
                    /\ \A ident \in DOMAIN rows :
                          /\ DOMAIN rows[ident] = DOMAIN header
                          /\ DOMAIN outdata[namespace][ident] \subseteq Range(header)
                          /\ \A i \in DOMAIN header :
                                rows[ident][i]
                                  = IF header[i] \in DOMAIN outdata[namespace][ident]
                                    THEN outdata[namespace][ident][header[i]]
                                    ELSE ""

C18_Witness ==
    /\ pc = "done"
    /\ last.op = "write"
    /\ \E namespace \in DOMAIN tables :
          /\ Len(tables[namespace].header) >= 2
          /\ Cardinality(DOMAIN tables[namespace].rows) = 2
          /\ \E ident \in DOMAIN tables[namespace].rows :
                \E i \in DOMAIN tables[namespace].header :
                    tables[namespace].rows[ident][i] = ""

(* C19: from every processor state a processing call can find,
   update(namespace, ident, value) leaves every record with another ident
   or in another namespace, and the field names of every other namespace,
   as they were: no such record or registry is added, removed or changed. *)
C19_MergeFrame ==
    pc = "process" =>
    \A namespace \in TryNamespaces, ident \in TryIdents, value \in TryValues :
        LET after == PUpdate(PState, namespace, ident, value)
        IN  /\ \A n \in DOMAIN outdata \cup DOMAIN after.outdata :
                  \A i \in DOMAIN Get(outdata, n, EmptyDict)
                            \cup DOMAIN Get(after.outdata, n, EmptyDict) :
                      (n # namespace \/ i # ident) =>
                          /\ HasRecord(after.outdata, n, i) = HasRecord(outdata, n, i)
                          /\ RecordAt(after.outdata, n, i) = RecordAt(outdata, n, i)
            /\ \A n \in (DOMAIN outdata \cup DOMAIN after.outdata) \ {namespace} :
                  (n \in DOMAIN after.outdata) = (n \in DOMAIN outdata)
            /\ \A n \in (DOMAIN fields \cup DOMAIN after.fields) \ {namespace} :
                  /\ (n \in DOMAIN after.fields) = (n \in DOMAIN fields)
                  /\ PFieldnames(after.fields, n) = PFieldnames(fields, n)

C19_Witness ==
    /\ last.op = "update"
    /\ pc = "process"
    /\ \E ident \in DOMAIN Get(outdata, last.namespace, EmptyDict) :
          ident # last.ident /\ DOMAIN outdata[last.namespace][ident] # {}
    /\ DOMAIN last.value # {}
    /\ last.value = RecordAt(outdata, last.namespace, last.ident)

\* the call made by the step raised
Raised(c) == "raised" \in DOMAIN c /\ c.raised

(* C20: main() catches nothing.  When a collector's read() raises the run
   is aborted before any processing call and any write; when a processing
   call raises the run is aborted before any write; an aborted run takes no
   further step, so no table is written from a store that was not
   processed to the end. *)
C20_FailureIsFatal ==
    [][ /\ pc # "aborted"
        /\ Raised(last') => (pc' = "aborted" /\ tables' = EmptyDict)
        /\ (last'.op = "read" /\ Raised(last'))
              => (nops' = 0 /\ outdata' = EmptyDict /\ fields' = EmptyDict)
        /\ pc' = "aborted" => Raised(last')
        /\ last'.op = "write"
              => (pc = "format" /\ ci = Len(ALL_COLLECTORS) /\ pi = Len(ALL_PROCESSORS))
        /\ (nops' # nops \/ outdata' # outdata) => pc = "process"
      ]_vars

C20_Witness ==
    /\ pc = "aborted"
    /\ Raised(last)
    /\ last.op = "selectfields"
    /\ nops = 2
    /\ Stored(relations) > 0
    /\ \E namespace \in DOMAIN outdata : namespace # last.namespace
    /\ tables = EmptyDict

(* C21: after relate(A, B) for two different namespaces A and B, every
   record of "A--B" has in its field A a fromid recorded under the default
   category of "A--B"; for every such fromid at most one record has it in
   field A, and that record's field B is the toid recorded for the fromid,
   which is the toid of the last relate() call of the collectors for it. *)
C21_OneToOne ==
    (last.op = "join" /\ last.from_ns # last.to_ns) =>
      LET A == last.from_ns
          B == last.to_ns
          ns == RelationNamespace(A, B)
          recs == Get(outdata, ns, EmptyDict)
          recorded == RecordedPairs(relations, ns, DefaultCategory)
      IN  /\ \A i \in DOMAIN recs :
                /\ A \in DOMAIN recs[i] /\ B \in DOMAIN recs[i]
                /\ \E p \in recorded : recs[i][A] = p[1]
          /\ \A p \in recorded :
                LET having == {i \in DOMAIN recs : recs[i][A] = p[1]}
                IN  /\ Cardinality(having) <= 1
                    /\ \A i \in having : recs[i][B] = p[2]

C21_Witness ==
    /\ last.op = "join"
    /\ last.from_ns # last.to_ns
    /\ nops = 1
    /\ LET ns == RelationNamespace(last.from_ns, last.to_ns)
           recs == Get(outdata, ns, EmptyDict)
           recorded == RecordedPairs(relations, ns, DefaultCategory)
       IN  /\ Cardinality(recorded) = 2
           /\ \A p \in recorded :
                 \E i \in DOMAIN recs :
                     recs[i][last.from_ns] = p[1] /\ recs[i][last.to_ns] = p[2]

(* C22: after processfields(namespace, category, func) has returned, every
   ident with a raw entry at (namespace, category) has a record at
   (namespace, ident); where func(entry) is the empty mapping the record is
   what it was before the call, the empty record if there was none, and
   when func yields the empty mapping for every entry the field names of
   the namespace are what they were. *)
C22_RecordPerEntry ==
    [][ (last'.op \in {"processfields", "selectfields"} /\ ~last'.raised) =>
          LET c == last'
              items == CItems(data, c.namespace, c.category)
              out(ident) == CallFunc(FuncOf(c), items[ident]).fields
          IN  /\ \A ident \in DOMAIN items :
                    /\ HasRecord(outdata', c.namespace, ident)
                    /\ DOMAIN out(ident) = {} =>
                          outdata'[c.namespace][ident] = RecordAt(outdata, c.namespace, ident)
              /\ (\A ident \in DOMAIN items : DOMAIN out(ident) = {}) =>
                    PFieldnames(fields', c.namespace) = PFieldnames(fields, c.namespace)
      ]_vars

C22_Witness ==
    /\ last.op = "processfields"
    /\ ~last.raised
    /\ Len(last.applied) = 2
    /\ \E ident \in Range(last.applied) :
          /\ "b.x" \notin DOMAIN CItems(data, last.namespace, last.category)[ident]
          /\ HasRecord(outdata, last.namespace, ident)
          /\ outdata[last.namespace][ident] = EmptyDict
    /\ \E ident \in Range(last.applied) :
          outdata[last.namespace][ident] # EmptyDict

\* the two stores as one value
Stores == [data |-> data, relations |-> relations, outdata |-> outdata, fields |-> fields]

\* the stores after items(namespace, category): self.data[namespace][category]
ReadItems(st, namespace, category) ==
    [st EXCEPT !.data = Touch2(@, namespace, category)]

\* the stores after relationitems(namespace)
ReadRelationItems(st, namespace) ==
    [st EXCEPT !.relations = Touch2(@, namespace, DefaultCategory)]

\* a fieldnames() that indexes outdata[namespace] as well
ReadFieldnamesAndRecords(st, namespace) ==
    [st EXCEPT !.fields = Put(@, namespace, Get(@, namespace, {})),
               !.outdata = Put(@, namespace, Get(@, namespace, EmptyDict))]

\* the stores after fieldnames(namespace): self.fields[namespace]
ReadFieldnames(st, namespace) ==
    [st EXCEPT !.fields = Put(@, namespace, Get(@, namespace, {}))]

\* the stores after the processor state's items(): self.outdata.iteritems()
ReadRecords(st) == st

\* the coordinates the purity of the reads is tried on: for the entries and
\* the field names the namespace "A" and the never written "B", with a
\* category that may be written and one that never is; for the relations
\* the namespace "A--B" and the never written "B--A"
PureNamespaces == {"A", "B"}
PureCategories == {"a", DefaultCategory}
PureRelationNamespaces == {"A--B", "B--A"}

\* the stores one read call can leave
AfterRead(st) ==
    {ReadItems(st, n, c) : n \in PureNamespaces, c \in PureCategories}
        \cup {ReadRelationItems(st, n) : n \in PureRelationNamespaces}
        \cup {ReadFieldnames(st, n) : n \in PureNamespaces}
        \cup {ReadRecords(st)}

\* what the four read accessors return, at every coordinate
Observed(st) ==
    [entries    |-> [x \in PureNamespaces \X PureCategories |->
                        CItems(st.data, x[1], x[2])],
     relations  |-> [n \in PureRelationNamespaces |-> CRelationItems(st.relations, n)],
     fieldnames |-> [n \in PureNamespaces |-> PFieldnames(st.fields, n)],
     records    |-> st.outdata]

(* C23: from every state of the stores a processor can find (the states
   earlier reads have left empty containers in included), a call of
   items(namespace, category), relationitems(namespace),
   fieldnames(namespace) or the processor state's items(), on a written or
   a never written coordinate, leaves what every one of the four returns
   at every coordinate as it was; the namespaces the processor state's
   items() yields are those a record was merged into, each with at least
   one record. *)
C23_ReadsArePure ==
    /\ \A namespace \in DOMAIN outdata : DOMAIN outdata[namespace] # {}
    /\ pc = "process" =>
          LET before == Observed(Stores)
          IN  \A once \in AfterRead(Stores) : Observed(once) = before

C23_Witness ==
    /\ pc = "process"
    /\ "A" \in DOMAIN data /\ "a.b" \in DOMAIN data["A"] /\ ~Written(data, "A", "a.b")
    /\ Written(data, "A", "a")
    /\ outdata # EmptyDict
    /\ Cardinality(AfterRead(Stores)) >= 6

====
